---- MODULE Spec2Model ----
(***************************************************************************)
(* Model of simulator/parse_results.py: the script opens "output.csv",     *)
(* skips the header line, and for every further line splits it on commas,  *)
(* parses the hits total and the bracketed batch-hits list, asserts that   *)
(* the total equals the sum of the list, and prints a summary line.        *)
(*                                                                         *)
(* A file is a sequence of bytes (0..255).  A Python str is a sequence of  *)
(* Unicode code points, so that decoding, splitting, slicing, int() and    *)
(* the f-string are computed as Python computes them: 44 is ",", 32 " ",   *)
(* 10 "\n", 13 "\r", 91 "[", 93 "]", 48..57 "0".."9".  The file is read    *)
(* as open() reads it where the locale's encoding is UTF-8.                *)
(***************************************************************************)
EXTENDS Integers, Sequences, FiniteSets, TLC

\* Number of data lines a modelled input file holds at most.
MaxLines == 2

-----------------------------------------------------------------------------
(* Python built-ins used by the script.                                    *)

\* Below, CHOOSE r \in {e : x \in {v}} : TRUE is e with v for x, v being
\* evaluated once: Python evaluates an expression before it uses its value.

\* The k-th smallest member of a set of numbers.
Nth(S, k) == CHOOSE i \in S : Cardinality({j \in S : j <= i}) = k

\* The code points of value 0 of the decimal digits int() reads (Unicode
\* category Nd, Unicode 14.0): each is followed by its 1..9.  48 is "0".
DigitZeros ==
    {48, 1632, 1776, 1984, 2406, 2534, 2662, 2790, 2918, 3046, 3174, 3302,
     3430, 3558, 3664, 3792, 3872, 4160, 4240, 6112, 6160, 6470, 6608,
     6784, 6800, 6992, 7088, 7232, 7248, 42528, 43216, 43264, 43472,
     43504, 43600, 44016, 65296, 66720, 68912, 69734, 69872, 69942, 70096,
     70384, 70736, 70864, 71248, 71360, 71472, 71904, 72016, 72784, 73040,
     73120, 92768, 92864, 93008, 120782, 120792, 120802, 120812, 120822,
     123200, 123632, 125264, 130032}

IsDigit(c) == \E z \in DigitZeros : z <= c /\ c <= z + 9

DigitVal(c) == c - (CHOOSE z \in DigitZeros : z <= c /\ c <= z + 9)

\* The characters int() ignores before and after the number: "\t", "\n",
\* "\v", "\f", "\r", " " and the Unicode spaces beyond ASCII.
IntWhitespace ==
    {9, 10, 11, 12, 13, 32, 133, 160, 5760, 8232, 8233, 8239, 8287, 12288}
      \cup (8192..8202)

RECURSIVE NatToStr(_)
NatToStr(n) ==
    IF n < 10 THEN <<48 + n>>
    ELSE NatToStr(n \div 10) \o <<48 + (n % 10)>>

\* str(n) of an int, as the f-string and the list repr render it.
IntToStr(n) == IF n < 0 THEN <<45>> \o NatToStr(0 - n) ELSE NatToStr(n)

\* The least and the greatest of a set of numbers.
Min(S) == CHOOSE i \in S : \A j \in S : i <= j
Max(S) == 0 - Min({0 - i : i \in S})

\* What int() keeps of s: s from its first to its last character that int()
\* does not ignore.
IntTrim(s) ==
    CHOOSE r \in
      { IF solid = {} THEN <<>> ELSE SubSeq(s, Min(solid), Max(solid))
        : solid \in {{i \in 1..Len(s) : s[i] \notin IntWhitespace}} } : TRUE

\* The digits of an int literal: digits, single underscores between them.
DigitBodyOk(b) ==
    /\ b # <<>>
    /\ \A i \in 1..Len(b) :
          IF b[i] = 95
          THEN /\ i > 1 /\ i < Len(b)
               /\ IsDigit(b[i - 1]) /\ IsDigit(b[i + 1])
          ELSE IsDigit(b[i])

\* int() refuses a literal of more digits than this
\* (sys.get_int_max_str_digits(); zeros at the front count, underscores do
\* not).
MaxStrDigits == 4300

IsDigitChar(c) == c # 95

\* The digits of a literal, without its underscores.
DigitsOf(b) == SelectSeq(b, IsDigitChar)

\* The digits of a literal from the first that is no zero on.
Significant(b) ==
    CHOOSE r \in
      { LET nz == {i \in 1..Len(ds) : DigitVal(ds[i]) # 0}
        IN  IF nz = {} THEN <<>>
            ELSE SubSeq(ds, Min(nz), Len(ds))
        : ds \in {DigitsOf(b)} } : TRUE

RECURSIVE DigitsValue(_, _)
DigitsValue(ds, acc) ==
    IF ds = <<>> THEN acc
    ELSE DigitsValue(Tail(ds), acc * 10 + DigitVal(Head(ds)))

\* A literal without its sign ("-" 45, "+" 43), and whether the sign is "-".
Unsigned(t) == IF t # <<>> /\ Head(t) \in {45, 43} THEN Tail(t) ELSE t
Negative(t) == t # <<>> /\ Head(t) = 45

\* The int of the digits `body`; a body that is no literal, and one of more
\* than MaxStrDigits digits, raises ValueError (ok = FALSE).
IntOfBody(neg, body) ==
    IF DigitBodyOk(body) /\ Len(DigitsOf(body)) <= MaxStrDigits
    THEN [ok |-> TRUE,
          val |-> CHOOSE v \in
                    { IF neg THEN 0 - DigitsValue(sig, 0)
                             ELSE DigitsValue(sig, 0)
                      : sig \in {Significant(body)} } : TRUE]
    ELSE [ok |-> FALSE, val |-> 0]

\* int(s): surrounding whitespace is ignored, one optional sign, then the
\* digits.
PyInt(s) ==
    CHOOSE r \in
      { IntOfBody(Negative(IntTrim(s)), body)
        : body \in {Unsigned(IntTrim(s))} } : TRUE

\* The places of character c in s.
Positions(s, c) == {i \in 1..Len(s) : s[i] = c}

\* s.split(sep) for a one-character separator: empty fields are kept and the
\* result always has at least one element.
PySplit(s, sep) ==
    CHOOSE r \in
      { [k \in 1..(Cardinality(at) + 1) |->
            SubSeq(s, IF k = 1 THEN 1 ELSE Nth(at, k - 1) + 1,
                      IF k = Cardinality(at) + 1 THEN Len(s)
                                                 ELSE Nth(at, k) - 1)]
        : at \in {Positions(s, sep)} } : TRUE

\* A slice bound as Python clips it to 0..n.
SliceIndex(i, n) ==
    IF i < 0 THEN (IF i + n < 0 THEN 0 ELSE i + n)
    ELSE (IF i > n THEN n ELSE i)

\* s[start:stop]
PySlice(s, start, stop) ==
    LET lo == SliceIndex(start, Len(s))
        hi == SliceIndex(stop, Len(s))
    IN  IF lo >= hi THEN <<>> ELSE SubSeq(s, lo + 1, hi)

RECURSIVE PySum(_)
PySum(xs) == IF xs = <<>> THEN 0 ELSE Head(xs) + PySum(Tail(xs))

\* list(map(int, tokens)): ok is FALSE when some int(token) raises.
MapInt(tokens) ==
    CHOOSE r \in
      { [ok   |-> \A i \in 1..Len(ints) : ints[i].ok,
         vals |-> [i \in 1..Len(ints) |-> ints[i].val]]
        : ints \in {[i \in 1..Len(tokens) |-> PyInt(tokens[i])]} } : TRUE

RECURSIVE JoinStr(_, _)
JoinStr(parts, sep) ==
    IF parts = <<>> THEN <<>>
    ELSE IF Len(parts) = 1 THEN parts[1]
    ELSE parts[1] \o sep \o JoinStr(Tail(parts), sep)

\* repr of a list of ints: "[3, 5, 7, 84]".
ReprList(xs) ==
    <<91>> \o JoinStr([i \in 1..Len(xs) |-> IntToStr(xs[i])], <<44, 32>>)
           \o <<93>>

\* f'{policy}, {hits} = sum({batchHits})'
FString(p, h, b) ==
    p \o <<44, 32>> \o IntToStr(h) \o <<32, 61, 32, 115, 117, 109, 40>>
      \o ReprList(b) \o <<41>>

-----------------------------------------------------------------------------
(* The file object of open(output_file, 'r'): a buffered reader of bytes,  *)
(* an incremental UTF-8 decoder (errors='strict') and the universal        *)
(* newlines decoder (newline=None).                                        *)

\* The text layer asks the buffer for this many bytes at a time.
ChunkSize == 8192

IsCont(b) == 128 <= b /\ b <= 191

\* The length of the UTF-8 sequence a byte starts; 0 when it starts none.
SeqLen(b) ==
    IF b < 128 THEN 1
    ELSE IF 194 <= b /\ b <= 223 THEN 2
    ELSE IF 224 <= b /\ b <= 239 THEN 3
    ELSE IF 240 <= b /\ b <= 244 THEN 4
    ELSE 0

\* The byte after the first byte of a sequence: no overlong form, no
\* surrogate, nothing beyond U+10FFFF.
SecondOk(lead, b) ==
    /\ IsCont(b)
    /\ lead = 224 => b >= 160
    /\ lead = 237 => b < 160
    /\ lead = 240 => b >= 144
    /\ lead = 244 => b < 144

\* d ends in the first two bytes of an encoded surrogate (237, then
\* 160..191): a decoder that is not at the end of its input takes them for a
\* sequence cut short, not yet for an error.
SurrogateCut(d) ==
    /\ Len(d) >= 2
    /\ d[Len(d) - 1] = 237
    /\ 160 <= d[Len(d)] /\ d[Len(d)] <= 191

\* Byte i of d is in place: a continuation byte belongs to the sequence begun
\* by the nearest byte before it that is none, and the bytes that follow a
\* first byte, as far as d has them, are continuation bytes.
ByteOk(d, i, final) ==
    IF IsCont(d[i])
    THEN \/ ~final /\ i = Len(d) /\ SurrogateCut(d)
         \/ \E j \in (i - 3)..(i - 1) :
               /\ j >= 1
               /\ ~IsCont(d[j])
               /\ \A k \in (j + 1)..i : IsCont(d[k])
               /\ i - j < SeqLen(d[j])
               /\ i = j + 1 => SecondOk(d[j], d[i])
    ELSE /\ SeqLen(d[i]) > 0
         /\ \A k \in (i + 1)..(i + SeqLen(d[i]) - 1) :
               k <= Len(d) => IsCont(d[k])

\* Byte i of d starts a sequence that d holds to its end.
Whole(d, i) == ~IsCont(d[i]) /\ i + SeqLen(d[i]) - 1 <= Len(d)

\* The first bytes of the sequences that the end of d cuts short.
Cut(d) ==
    {i \in (Len(d) - 2)..Len(d) :
        i >= 1 /\ ~IsCont(d[i]) /\ i + SeqLen(d[i]) - 1 > Len(d)}

CodePoint(d, i) ==
    IF d[i] < 128 THEN d[i]
    ELSE IF d[i] < 224 THEN (d[i] - 192) * 64 + (d[i + 1] - 128)
    ELSE IF d[i] < 240
         THEN (d[i] - 224) * 4096 + (d[i + 1] - 128) * 64 + (d[i + 2] - 128)
    ELSE (d[i] - 240) * 262144 + (d[i + 1] - 128) * 4096
           + (d[i + 2] - 128) * 64 + (d[i + 3] - 128)

\* A place that holds a character (code points are not negative).
Kept(c) == c >= 0

\* codecs.utf_8_decode(d, 'strict', final): the characters of d and the
\* number of bytes they take; a sequence cut short by the end of d is left
\* for the next call unless final; ok = FALSE is UnicodeDecodeError.
Utf8Decode(d, final) ==
    IF (\E i \in 1..Len(d) : ~ByteOk(d, i, final))
         \/ (final /\ Cut(d) # {})
    THEN [ok |-> FALSE, chars |-> <<>>, consumed |-> 0]
    ELSE [ok |-> TRUE,
          chars |-> SelectSeq([i \in 1..Len(d) |->
                                  IF Whole(d, i) THEN CodePoint(d, i)
                                                 ELSE -1], Kept),
          consumed |-> IF Cut(d) = {} THEN Len(d)
                       ELSE (CHOOSE i \in Cut(d) : TRUE) - 1]

\* "\r\n" and "\r" become "\n".
TranslateNewlines(s) ==
    SelectSeq([i \in 1..Len(s) |->
                  IF s[i] = 13 /\ i < Len(s) /\ s[i + 1] = 10 THEN -1
                  ELSE IF s[i] = 13 THEN 10
                  ELSE s[i]], Kept)

\* The state of f: raw, the offset in the file; undecoded, the bytes of a
\* sequence cut by the end of a chunk; pendingcr, a "\r" that ended a chunk
\* is held back; chars, the decoded text not yet returned.
NewReader ==
    [raw |-> 0, undecoded |-> <<>>, pendingcr |-> FALSE, chars |-> <<>>]

\* IncrementalNewlineDecoder.decode over the UTF-8 decoder, on the bytes
\* data = undecoded + chunk, the n bytes of the chunk being read from the
\* file; eof when the chunk is empty.  When the bytes do not decode, the
\* two decoders keep their state and only the offset in the file has moved;
\* what becomes of the text not yet returned is readline's doing, see
\* FillBuffer.
DecodeChunk(rd, data, n, eof) ==
    CHOOSE r \in
      { IF ~dec.ok
        THEN [err |-> TRUE, eof |-> eof,
              rd |-> [rd EXCEPT !.raw = @ + n]]
        ELSE LET some == dec.chars # <<>> \/ eof
                 text == IF rd.pendingcr /\ some THEN <<13>> \o dec.chars
                                                ELSE dec.chars
                 hold == text # <<>> /\ text[Len(text)] = 13 /\ ~eof
                 kept == IF hold THEN SubSeq(text, 1, Len(text) - 1)
                                 ELSE text
             IN  [err |-> FALSE, eof |-> eof,
                  rd |-> [raw |-> rd.raw + n,
                          undecoded |-> SubSeq(data, dec.consumed + 1,
                                               Len(data)),
                          pendingcr |-> hold \/ (rd.pendingcr /\ ~some),
                          chars |-> rd.chars \o TranslateNewlines(kept)]]
        : dec \in {Utf8Decode(data, eof)} } : TRUE

\* One read of at most ChunkSize bytes from offset rd.raw, decoded.
ReadChunk(bytes, rd) ==
    CHOOSE r \in
      { DecodeChunk(rd, rd.undecoded \o chunk, Len(chunk), chunk = <<>>)
        : chunk \in
            {SubSeq(bytes, rd.raw + 1,
                    IF rd.raw + ChunkSize < Len(bytes)
                    THEN rd.raw + ChunkSize ELSE Len(bytes))} } : TRUE

\* The loop of readline: chunks are read until the decoded text holds a
\* "\n", the file ends or a chunk does not decode.  rd.chars stands for the
\* text readline has put aside and the decoded text of the file object
\* together.  Before it reads a chunk, readline has moved all text without a
\* "\n" into a local and emptied the decoded text of the file object, so the
\* UnicodeDecodeError of that read loses the text: the file object holds
\* none afterwards.
RECURSIVE FillBuffer(_, _)
FillBuffer(bytes, rd) ==
    IF Positions(rd.chars, 10) # {} THEN [err |-> FALSE, rd |-> rd]
    ELSE CHOOSE r \in
           { IF c.err THEN [err |-> TRUE, rd |-> [c.rd EXCEPT !.chars = <<>>]]
             ELSE IF c.eof /\ c.rd.chars = rd.chars
                  THEN [err |-> FALSE, rd |-> c.rd]
             ELSE FillBuffer(bytes, c.rd)
             : c \in {ReadChunk(bytes, rd)} } : TRUE

\* f.readline(), which next(f) and the for loop call: the text up to and
\* with the first "\n"; the rest of the text at the end of the file; eof when
\* there is none; err when a chunk read on the way does not decode, and
\* then the text read so far is gone and a further call goes on behind the
\* chunk.
ReadLine(bytes, rd) ==
    CHOOSE r \in
      { IF b.err
        THEN [err |-> TRUE, eof |-> FALSE, text |-> <<>>, rd |-> b.rd]
        ELSE IF Positions(b.rd.chars, 10) = {}
        THEN [err |-> FALSE, eof |-> b.rd.chars = <<>>, text |-> b.rd.chars,
              rd |-> [b.rd EXCEPT !.chars = <<>>]]
        ELSE [err |-> FALSE, eof |-> FALSE,
              text |-> SubSeq(b.rd.chars, 1,
                              Nth(Positions(b.rd.chars, 10), 1)),
              rd |-> [b.rd EXCEPT
                        !.chars = SubSeq(@, Nth(Positions(@, 10), 1) + 1,
                                         Len(@))]]
        : b \in {FillBuffer(bytes, rd)} } : TRUE

-----------------------------------------------------------------------------
(* The input files of the model.  A record line is written the way the     *)
(* upstream simulator writes it, "policy,x,hits,[b1 b2 ... bn]"; the other *)
(* lines are what else the script can meet in the file.                    *)

WriteRecord(p, x, h, bs) ==
    p \o <<44>> \o IntToStr(x) \o <<44>> \o IntToStr(h) \o <<44, 91>>
      \o JoinStr([i \in 1..Len(bs) |-> IntToStr(bs[i])], <<32>>) \o <<93>>

\* The UTF-8 bytes of a character, and of a text.
EncodeChar(c) ==
    IF c < 128 THEN <<c>>
    ELSE IF c < 2048 THEN <<192 + (c \div 64), 128 + (c % 64)>>
    ELSE IF c < 65536
         THEN <<224 + (c \div 4096), 128 + ((c \div 64) % 64),
                128 + (c % 64)>>
    ELSE <<240 + (c \div 262144), 128 + ((c \div 4096) % 64),
           128 + ((c \div 64) % 64), 128 + (c % 64)>>

\* Byte k (1..4) of character c, -1 where its encoding is shorter.
EncodedByte(c, k) == IF k <= Len(EncodeChar(c)) THEN EncodeChar(c)[k] ELSE -1

Utf8Encode(s) ==
    SelectSeq([i \in 1..(4 * Len(s)) |->
                  EncodedByte(s[((i - 1) \div 4) + 1], ((i - 1) % 4) + 1)],
              Kept)

\* A line in the writer's format.
Rec(p, x, h, bs) ==
    [fault |-> "none", written |-> TRUE, policy |-> p, x |-> x, hits |-> h,
     batch |-> bs, text |-> WriteRecord(p, x, h, bs),
     bytes |-> Utf8Encode(WriteRecord(p, x, h, bs))]

\* A line of text in another format.  fault: "few" (fewer than three
\* fields), "hits" (field 2 is no integer), "batch" (a batch-hits token is no
\* integer), "none" (the script reads a record from it).
Raw(fault, text) ==
    [fault |-> fault, written |-> FALSE, policy |-> <<>>, x |-> 0,
     hits |-> 0, batch |-> <<>>, text |-> text, bytes |-> Utf8Encode(text)]

\* A line that is no UTF-8 text.
RawBytes(bytes) ==
    [fault |-> "bytes", written |-> FALSE, policy |-> <<>>, x |-> 0,
     hits |-> 0, batch |-> <<>>, text |-> <<>>, bytes |-> bytes]

Greedy == <<103, 114, 101, 101, 100, 121>>
Lru == <<108, 114, 117>>

\* 1: "greedy,42,99,[3 5 7 84]"   2: "lru,0,10,[2 2 2]"
\* 3: "lru,0,16,[12 2 2]"         4: "a,1,8,[3 58]"
\* 5: ""   6: "a,b"   7: "a,1,x,[1 2]"   8: "a,1,3,[1 x]"
\* 9: "b,1,<FF><U+0663>,[<VT>1 2<FF>]": form feed (12), ARABIC-INDIC DIGIT
\*    THREE (1635), vertical tab (11); the script reads hits 3, batch [1, 2]
\* 10: the bytes of "a,1,3,[3" and "]" around the byte 255
\* 11: the bytes 237, 160, the first two of an encoded surrogate
\* 12: "a,1,0...03,[3]", the hits of MaxStrDigits zeros and a 3
\* 13: "a,1,0...03,[3]", the hits of MaxStrDigits - 1 zeros and a 3
DataLines ==
    << Rec(Greedy, 42, 99, <<3, 5, 7, 84>>),
       Rec(Lru, 0, 10, <<2, 2, 2>>),
       Rec(Lru, 0, 16, <<12, 2, 2>>),
       Rec(<<97>>, 1, 8, <<3, 58>>),
       Raw("few", <<>>),
       Raw("few", <<97, 44, 98>>),
       Raw("hits", <<97, 44, 49, 44, 120, 44, 91, 49, 32, 50, 93>>),
       Raw("batch", <<97, 44, 49, 44, 51, 44, 91, 49, 32, 120, 93>>),
       Raw("none", <<98, 44, 49, 44, 12, 1635, 44, 91, 11, 49, 32, 50, 12,
                     93>>),
       RawBytes(<<97, 44, 49, 44, 51, 44, 91, 51>> \o <<255>> \o <<93>>),
       RawBytes(<<237, 160>>),
       Raw("hits", <<97, 44, 49, 44>> \o [i \in 1..MaxStrDigits |-> 48]
                     \o <<51, 44, 91, 51, 93>>),
       Raw("none", <<97, 44, 49, 44>> \o [i \in 1..(MaxStrDigits - 1) |-> 48]
                     \o <<51, 44, 91, 51, 93>>) >>

\* The lines 1..ShortLines come in every file of up to MaxLines lines; the
\* lines behind them, with the longest literals int() reads, in BigInputs.
ShortLines == 11

\* A valid record line that, with its "\n", fills the first chunk behind the
\* long header.
ChunkFiller == 3

\* The header lines, in bytes: "h", which has one field only; "h,0,1,[1]",
\* which reads as a valid record; "h" and the byte 255, which is no UTF-8
\* text; a line of "h"s so long that it and the line ChunkFiller, each
\* with its "\n", are ChunkSize bytes; and ChunkSize "h"s and the byte 255,
\* a header whose text fills the first chunk and whose bad byte is read with
\* the second.
Headers ==
    << <<104>>,
       <<104, 44, 48, 44, 49, 44, 91, 49, 93>>,
       <<104, 255>>,
       [i \in 1..(ChunkSize - Len(DataLines[ChunkFiller].bytes) - 2) |->
           104],
       [i \in 1..ChunkSize |-> 104] \o <<255>> >>

LongHeader == 4
ChunkHeader == 5

LF == <<10>>
CRLF == <<13, 10>>

\* The bytes of a file: the header and the data lines, each followed by the
\* line terminator, the last one only when `terminated`.
FileBytes(h, ds, eol, terminated) ==
    JoinStr(<<Headers[h]>> \o [i \in 1..Len(ds) |-> DataLines[ds[i]].bytes],
            eol)
      \o (IF terminated THEN eol ELSE <<>>)

LineSeqs ==
    UNION {[1..n -> 1..ShortLines] : n \in 0..MaxLines}

\* A blank last line exists only through its terminator.
WellWritten(ds, t) ==
    t \/ ds = <<>> \/ DataLines[ds[Len(ds)]].bytes # <<>>

\* The files with the long header: the first chunk ends with the line
\* ChunkFiller, at most one line follows in the second chunk.
LongInputs ==
    {[empty |-> FALSE, header |-> LongHeader, lines |-> <<ChunkFiller>> \o ds,
      eol |-> LF, terminated |-> TRUE] :
        ds \in {s \in LineSeqs : Len(s) <= 1}}

\* The files in which a chunk that does not decode is read while text without
\* a line end is waiting: the header ChunkHeader, alone and before a record;
\* and, behind the long header, a record that crosses the end of the first
\* chunk and is followed by a line with a bad byte.
LostTextInputs ==
    {[empty |-> FALSE, header |-> ChunkHeader, lines |-> ds, eol |-> LF,
      terminated |-> TRUE] : ds \in {<<>>, <<1>>}}
    \cup {[empty |-> FALSE, header |-> LongHeader, lines |-> <<1, 10>>,
            eol |-> LF, terminated |-> TRUE]}

\* The files with a hits literal of MaxStrDigits digits and of one more.
BigInputs ==
    {[empty |-> FALSE, header |-> 1, lines |-> ds, eol |-> LF,
      terminated |-> TRUE] : ds \in {<<12>>, <<13>>, <<13, 12>>}}

\* empty: a file of zero bytes (it has no header line either).
Inputs ==
    {i \in [empty : {FALSE}, header : 1..(LongHeader - 1), lines : LineSeqs,
            eol : {LF, CRLF}, terminated : BOOLEAN] :
        WellWritten(i.lines, i.terminated)}
    \cup LongInputs
    \cup BigInputs
    \cup LostTextInputs
    \cup {[empty |-> TRUE, header |-> 1, lines |-> <<>>, eol |-> LF,
           terminated |-> FALSE]}

InputBytes(i) ==
    IF i.empty THEN <<>>
    ELSE FileBytes(i.header, i.lines, i.eol, i.terminated)

-----------------------------------------------------------------------------
VARIABLES
    fileState,  \* "output.csv" on disk: "missing", "unreadable" or "present"
    input,      \* how the file on disk was written (not read by the script)
    content,    \* the bytes of the file on disk
    handle,     \* the file object f: "unopened", "open" or "closed"
    reader,     \* the buffers of f
    lineNo,     \* number of data lines the for loop has fetched
    pc,         \* the statement the script is at
    line,       \* the loop variable, before line.split(',')
    fields,     \* the loop variable, after line = line.split(',')
    policy,
    hits,
    sliced,     \* the value of line[-1][1:-2]
    batchHits,
    out,        \* standard output, one element per printed line
    err,        \* the uncaught exception, "none" while there is none
    exitCode    \* the process exit status; -1 while the script runs

vars == <<fileState, input, content, handle, reader, lineNo, pc, line,
          fields, policy, hits, sliced, batchHits, out, err, exitCode>>

output_file == <<111, 117, 116, 112, 117, 116, 46, 99, 115, 118>>

PolicyIndex == 0
HitsIndex == 2
SliceStart == 1
SliceStop == -2

\* What is on disk under output_file: nothing, a file the process may not
\* read, or one of the modelled files.
Init ==
    /\ \E fs \in {"missing", "unreadable", "present"} :
         \E i \in Inputs :
            /\ fs = "missing" => i.empty
            /\ fs = "unreadable" =>
                  i = [empty |-> FALSE, header |-> 1, lines |-> <<1>>,
                       eol |-> LF, terminated |-> TRUE]
            /\ fileState = fs
            /\ input = i
            /\ content = IF fs = "missing" THEN <<>> ELSE InputBytes(i)
    /\ handle = "unopened"
    /\ reader = NewReader
    /\ lineNo = 0
    /\ pc = "open"
    /\ line = <<>>
    /\ fields = <<>>
    /\ policy = <<>>
    /\ hits = 0
    /\ sliced = <<>>
    /\ batchHits = <<>>
    /\ out = <<>>
    /\ err = "none"
    /\ exitCode = -1

locals == <<line, fields, policy, hits, sliced, batchHits>>
disk == <<fileState, input, content>>

\* An exception raised inside the with block: the block is left through the
\* file's __exit__.
Raise(e) ==
    /\ err' = e
    /\ pc' = "exit_with"

\* Mutant: the file is opened in a mode that creates it when it is missing.
Open_CreatesFile ==
    /\ pc = "open"
    /\ handle' = "open"
    /\ reader' = NewReader
    /\ pc' = "next"
    /\ UNCHANGED <<disk, locals, lineNo, out, err, exitCode>>

\* with open(output_file, 'r') as f:
Open ==
    /\ pc = "open"
    /\ IF fileState = "present"
       THEN /\ handle' = "open"
            /\ reader' = NewReader
            /\ pc' = "next"
            /\ UNCHANGED <<err, exitCode>>
       ELSE /\ err' = IF fileState = "missing" THEN "FileNotFoundError"
                                               ELSE "PermissionError"
            /\ exitCode' = 1
            /\ pc' = "done"
            /\ UNCHANGED <<handle, reader>>
    /\ UNCHANGED <<disk, locals, lineNo, out>>

\* Mutant: the next(f) that drops the header is left out.
SkipHeader_KeepsLine ==
    /\ pc = "next"
    /\ pc' = "for"
    /\ UNCHANGED <<disk, locals, handle, reader, lineNo, out, err, exitCode>>

\* next(f): the header line is fetched and dropped; StopIteration on a file
\* of zero lines; UnicodeDecodeError when a chunk read for the line is no
\* UTF-8 text, be it in the header or behind it.
SkipHeader ==
    /\ pc = "next"
    /\ \E r \in {ReadLine(content, reader)} :
          /\ reader' = r.rd
          /\ IF r.err THEN Raise("UnicodeDecodeError")
             ELSE IF r.eof THEN Raise("StopIteration")
             ELSE /\ pc' = "for"
                  /\ UNCHANGED err
    /\ UNCHANGED <<disk, locals, handle, lineNo, out, exitCode>>

\* for line in f: the next line, or the end of the loop and of the block;
\* UnicodeDecodeError when a chunk read for the line is no UTF-8 text.
ForLine ==
    /\ pc = "for"
    /\ \E r \in {ReadLine(content, reader)} :
          /\ reader' = r.rd
          /\ IF r.err
             THEN /\ Raise("UnicodeDecodeError")
                  /\ UNCHANGED <<line, lineNo>>
             ELSE IF r.eof
             THEN /\ pc' = "exit_with"
                  /\ UNCHANGED <<line, lineNo, err>>
             ELSE /\ line' = r.text
                  /\ lineNo' = lineNo + 1
                  /\ pc' = "split"
                  /\ UNCHANGED err
    /\ UNCHANGED <<disk, handle, fields, policy, hits, sliced, batchHits,
                   out, exitCode>>

\* line = line.split(',')
SplitLine ==
    /\ pc = "split"
    /\ fields' = PySplit(line, 44)
    /\ pc' = "policy"
    /\ UNCHANGED <<disk, handle, reader, lineNo, line, policy, hits, sliced,
                   batchHits, out, err, exitCode>>

\* policy = line[0]
GetPolicy ==
    /\ pc = "policy"
    /\ policy' = fields[PolicyIndex + 1]
    /\ pc' = "hits"
    /\ UNCHANGED <<disk, handle, reader, lineNo, line, fields, hits, sliced,
                   batchHits, out, err, exitCode>>

\* Mutant: a line whose hits cannot be read is skipped, not fatal.
ParseHits_SkipsBadLine ==
    /\ pc = "hits"
    /\ IF Len(fields) < HitsIndex + 1 \/ ~PyInt(fields[HitsIndex + 1]).ok
       THEN /\ pc' = "for"
            /\ UNCHANGED hits
       ELSE /\ hits' = PyInt(fields[HitsIndex + 1]).val
            /\ pc' = "batch"
    /\ UNCHANGED <<disk, handle, reader, lineNo, line, fields, policy,
                   sliced, batchHits, out, err, exitCode>>

\* hits = int(line[2])
ParseHits ==
    /\ pc = "hits"
    /\ IF Len(fields) < HitsIndex + 1
       THEN /\ Raise("IndexError")
            /\ UNCHANGED hits
       ELSE IF ~PyInt(fields[HitsIndex + 1]).ok
       THEN /\ Raise("ValueError")
            /\ UNCHANGED hits
       ELSE /\ hits' = PyInt(fields[HitsIndex + 1]).val
            /\ pc' = "batch"
            /\ UNCHANGED err
    /\ UNCHANGED <<disk, handle, reader, lineNo, line, fields, policy,
                   sliced, batchHits, out, exitCode>>

\* Mutant: two characters are cut at the front as well, line[-1][2:-2].
BatchField_TwoLeading(fs) == PySlice(fs[Len(fs)], 2, SliceStop)

\* Mutant: only the closing bracket is cut at the end, line[-1][1:-1].
BatchField_OneTrailing(fs) == PySlice(fs[Len(fs)], SliceStart, -1)

\* line[-1][1:-2]
BatchField(fs) == PySlice(fs[Len(fs)], SliceStart, SliceStop)

\* batchHits = list(map(int, line[-1][1:-2].split(' ')))
ParseBatch ==
    /\ pc = "batch"
    /\ \E text \in {BatchField(fields)} :
         \E parsed \in {MapInt(PySplit(text, 32))} :
            /\ sliced' = text
            /\ IF parsed.ok
               THEN /\ batchHits' = parsed.vals
                    /\ pc' = "assert"
                    /\ UNCHANGED err
               ELSE /\ Raise("ValueError")
                    /\ UNCHANGED batchHits
    /\ UNCHANGED <<disk, handle, reader, lineNo, line, fields, policy, hits,
                   out, exitCode>>

\* Mutant: the assert statement is compiled away.
AssertSum_Stripped ==
    /\ pc = "assert"
    /\ pc' = "print"
    /\ UNCHANGED <<disk, locals, handle, reader, lineNo, out, err, exitCode>>

\* Mutant: a record that fails the check is skipped, not fatal.
AssertSum_SkipsRecord ==
    /\ pc = "assert"
    /\ pc' = IF hits = PySum(batchHits) THEN "print" ELSE "for"
    /\ UNCHANGED <<disk, locals, handle, reader, lineNo, out, err, exitCode>>

\* assert(hits == sum(batchHits))
AssertSum ==
    /\ pc = "assert"
    /\ IF hits = PySum(batchHits)
       THEN /\ pc' = "print"
            /\ UNCHANGED err
       ELSE Raise("AssertionError")
    /\ UNCHANGED <<disk, locals, handle, reader, lineNo, out, exitCode>>

\* print(f'{policy}, {hits} = sum({batchHits})')
PrintLine ==
    /\ pc = "print"
    /\ out' = Append(out, FString(policy, hits, batchHits))
    /\ pc' = "for"
    /\ UNCHANGED <<disk, locals, handle, reader, lineNo, err, exitCode>>

\* Mutant: f is closed by a statement after the loop, which an exception
\* never reaches.
ExitWith_LeaksOnError ==
    /\ pc = "exit_with"
    /\ handle' = IF err = "none" THEN "closed" ELSE handle
    /\ exitCode' = IF err = "none" THEN 0 ELSE 1
    /\ pc' = "done"
    /\ UNCHANGED <<disk, locals, reader, lineNo, out, err>>

\* Mutant: the context manager swallows the exception.
ExitWith_Suppresses ==
    /\ pc = "exit_with"
    /\ handle' = "closed"
    /\ exitCode' = 0
    /\ pc' = "done"
    /\ UNCHANGED <<disk, locals, reader, lineNo, out, err>>

\* The end of the with block, reached by falling out of the loop or by an
\* exception: f is closed, then the script ends or the exception ends it.
ExitWith ==
    /\ pc = "exit_with"
    /\ handle' = "closed"
    /\ exitCode' = IF err = "none" THEN 0 ELSE 1
    /\ pc' = "done"
    /\ UNCHANGED <<disk, locals, reader, lineNo, out, err>>

Next ==
    \/ Open
    \/ SkipHeader
    \/ ForLine
    \/ SplitLine
    \/ GetPolicy
    \/ ParseHits
    \/ ParseBatch
    \/ AssertSum
    \/ PrintLine
    \/ ExitWith

Spec == Init /\ [][Next]_vars

\* The interpreter runs the script statement after statement: a step that can
\* be taken is taken.
FairSpec == Spec /\ WF_vars(Next)

-----------------------------------------------------------------------------
(* Vocabulary of the properties.                                           *)

Done == pc = "done"

\* The file on disk is UTF-8 text from its first to its last byte.
Decodable == Utf8Decode(content, TRUE).ok

\* The k-th data line as it was written, and as the file iterator yields it.
Written(k) == DataLines[input.lines[k]]
NumRecords == Len(input.lines)
HasTerminator(k) == k < NumRecords \/ input.terminated
LineText(k) == Written(k).text \o (IF HasTerminator(k) THEN LF ELSE <<>>)

\* The record the script makes of the k-th data line.
FieldsOf(k) == PySplit(LineText(k), 44)
HitsOf(k) == PyInt(FieldsOf(k)[HitsIndex + 1])
BatchOf(k) == MapInt(PySplit(BatchField(FieldsOf(k)), 32))
Parses(k) ==
    /\ Written(k).fault # "bytes"
    /\ Len(FieldsOf(k)) >= HitsIndex + 1
    /\ HitsOf(k).ok
    /\ BatchOf(k).ok
\* The ways the k-th data line, as it is read, fails to make a record: fewer
\* fields than line[2] needs, a field 2 that int() refuses, a batch token
\* that int() refuses (the empty token that the slice of a line without its
\* "\n" leaves included).
FewFields(k) == Len(FieldsOf(k)) < HitsIndex + 1
BadHits(k) == ~FewFields(k) /\ ~HitsOf(k).ok
BadBatch(k) == ~FewFields(k) /\ HitsOf(k).ok /\ ~BatchOf(k).ok
Malformed(k) == FewFields(k) \/ BadHits(k) \/ BadBatch(k)
Validates(k) == Parses(k) /\ HitsOf(k).val = PySum(BatchOf(k).vals)
Mismatch(k) == Parses(k) /\ HitsOf(k).val # PySum(BatchOf(k).vals)
Summary(k) ==
    FString(FieldsOf(k)[PolicyIndex + 1], HitsOf(k).val, BatchOf(k).vals)

\* The record as the writer meant it.
WrittenValid(k) ==
    /\ Written(k).written
    /\ Written(k).hits = PySum(Written(k).batch)
WrittenSummary(k) ==
    FString(Written(k).policy, Written(k).hits, Written(k).batch)
WrittenInner(k) ==
    JoinStr([i \in 1..Len(Written(k).batch) |-> IntToStr(Written(k).batch[i])],
            <<32>>)

IsPrefix(a, b) == Len(a) <= Len(b) /\ SubSeq(b, 1, Len(a)) = a

\* A step never takes back a printed line, and once an exception is raised
\* nothing more is read or printed.
StepKeepsOutput ==
    /\ IsPrefix(out, out')
    /\ err # "none" => (out' = out /\ lineNo' = lineNo /\ err' = err)

\* The data line in hand has been dealt with: printed, or the run aborted.
Finished == pc \in {"for", "exit_with", "done"}

-----------------------------------------------------------------------------
\* C1: every summary line printed so far belongs to a record whose hits,
\* parsed from field 2, equals the sum of the batch hits parsed from the last
\* field of the same input line, and shows exactly those values.
C1_EmittedLinesSumToHits ==
    \A i \in 1..Len(out) : Validates(i) /\ out[i] = Summary(i)

\* Two lines are printed, the second for the line 9, whose hits is written
\* with a non-ASCII digit: "b, 3 = sum([1, 2])".
C1_Witness ==
    /\ Done /\ Len(out) = 2 /\ err = "none"
    /\ input.lines[2] = 9 /\ out[2] = <<98, 44, 32, 51, 32, 61, 32, 115, 117,
                                        109, 40, 91, 49, 44, 32, 50, 93, 41>>

\* The data line in hand parses and its hits differs from the sum of its batch
\* hits: it is not printed, the loop does not go on, and the run ends with
\* AssertionError and the summaries of the lines before it.
C2_State ==
    (lineNo >= 1 /\ Mismatch(lineNo)) =>
        /\ pc \notin {"print", "for"}
        /\ pc \in {"exit_with", "done"} =>
              /\ err = "AssertionError"
              /\ Len(out) = lineNo - 1
              /\ \A i \in 1..(lineNo - 1) : out[i] = Summary(i)
        /\ Done => exitCode = 1

\* C2: once the data line in hand is one whose hits differs from the sum of
\* its batch hits, it is never printed and no later line is fetched; the run
\* ends with AssertionError having printed exactly the summaries of the lines
\* before it, in file order, and no step removes a printed line.
C2_FailFast == []C2_State /\ [][StepKeepsOutput]_vars

C2_Witness ==
    /\ Done /\ err = "AssertionError"
    /\ lineNo = 2 /\ Mismatch(2) /\ Len(out) = 1 /\ out[1] = Summary(1)

\* C3 (as claimed): for every data line written "policy,x,hits,[b1 ... bn]"
\* with hits = b1+...+bn the parsed batchHits is b1..bn and the line
\* "{policy}, {hits} = sum({batch_hits})" is printed; in particular the file
\* of a header line of text and the one line "greedy,42,99,[3 5 7 84]" prints
\* exactly "greedy, 99 = sum([3, 5, 7, 84])".
C3_ParsedEqualsWritten ==
    /\ (lineNo >= 1 /\ WrittenValid(lineNo)) =>
          /\ pc \in {"assert", "print"} => batchHits = Written(lineNo).batch
          /\ Finished =>
                /\ Len(out) = lineNo
                /\ out[lineNo] = WrittenSummary(lineNo)
    /\ (Done /\ fileState = "present" /\ Decodable /\ input.lines = <<1>>) =>
          out = << <<103, 114, 101, 101, 100, 121, 44, 32, 57, 57, 32, 61,
                     32, 115, 117, 109, 40, 91, 51, 44, 32, 53, 44, 32, 55,
                     44, 32, 56, 52, 93, 41>> >>

\* C4: the header is only fetched and dropped: while no data line has been
\* fetched nothing is split, parsed or asserted, so that no IndexError,
\* ValueError or AssertionError is raised there, and a file that is text and
\* has a first line raises nothing at all there; the k-th line the loop
\* handles is line k+1 of the file, and the first printed line is the summary
\* of the file's second line.
C4_HeaderNeverParsed ==
    /\ lineNo = 0 =>
          /\ pc \in {"open", "next", "for", "exit_with", "done"}
          /\ fields = <<>> /\ policy = <<>> /\ sliced = <<>> /\ batchHits = <<>>
          /\ err \in {"none", "FileNotFoundError", "PermissionError",
                      "StopIteration", "UnicodeDecodeError"}
          /\ err = "UnicodeDecodeError" => ~Decodable
          /\ err = "StopIteration" => content = <<>>
    /\ lineNo >= 1 => line = LineText(lineNo)
    /\ Len(out) >= 1 => out[1] = Summary(1)

C4_Witness == input.header = 2 /\ Len(out) >= 1 /\ Done

AllValidate == \A k \in 1..NumRecords : Validates(k)

\* A file the script can read: it is there, it may be opened, it is text.
Readable == fileState = "present" /\ Decodable

\* C5 (as claimed): every readable file whose data records all validate,
\* a file of zero data records included, ends normally with one line per
\* record, and a run ends abnormally only with a file error (a file that is
\* missing, unreadable or no text), a parse error or an invariant violation.
C5_Original ==
    Done =>
       /\ (Readable /\ AllValidate) =>
             /\ exitCode = 0 /\ err = "none"
             /\ Len(out) = NumRecords
       /\ exitCode # 0 =>
             err \in {"FileNotFoundError", "PermissionError",
                      "UnicodeDecodeError", "IndexError", "ValueError",
                      "AssertionError"}

\* How a run that has ended has ended.
C5_State ==
    Done =>
          /\ exitCode \in {0, 1}
          /\ (Readable /\ ~input.empty /\ AllValidate) <=> exitCode = 0
          /\ exitCode = 0 =>
                /\ err = "none"
                /\ Len(out) = NumRecords
                /\ \A k \in 1..NumRecords : out[k] = Summary(k)
          /\ exitCode = 1 =>
                CASE fileState = "missing" -> err = "FileNotFoundError"
                  [] fileState = "unreadable" -> err = "PermissionError"
                  [] input.empty -> err = "StopIteration"
                  [] OTHER ->
                       /\ \A k \in 1..(lineNo - 1) : Validates(k)
                       /\ IF err = "UnicodeDecodeError"
                          THEN /\ ~Decodable
                               /\ lineNo >= 1 => Validates(lineNo)
                               /\ Len(out) = lineNo
                          ELSE /\ lineNo >= 1
                               /\ Len(out) = lineNo - 1
                               /\ IF Mismatch(lineNo)
                                  THEN err = "AssertionError"
                                  ELSE /\ ~Parses(lineNo)
                                       /\ err \in {"IndexError", "ValueError"}

\* C5 (amended): every run ends; a readable file (present, openable, UTF-8
\* text) that has a header line and whose data records all validate ends with
\* exit status 0 and exactly the summaries of its records, in order; any
\* other run ends with status 1: on the error of open(), on StopIteration for
\* a file of zero lines, on UnicodeDecodeError at the first chunk that is no
\* text, or on the first line that fails to parse (IndexError, ValueError) or
\* to validate (AssertionError), whichever the script meets first.
C5_Amended == []C5_State /\ <>Done

C5_Witness == Done /\ exitCode = 0 /\ Len(out) = NumRecords /\ NumRecords = 2

LastField == fields[Len(fields)]

\* C6 (as claimed): the batch-hits text that is split on spaces is the last
\* field without its two leading and its two trailing characters.
C6_Original ==
    pc = "assert" => sliced = SubSeq(LastField, 3, Len(LastField) - 2)

\* C6 (amended): the batch-hits text that is split on spaces and parsed token
\* by token is the last field without its one leading and its two trailing
\* characters.
C6_Amended ==
    pc = "assert" =>
       /\ sliced = SubSeq(LastField, 2, Len(LastField) - 2)
       /\ Len(batchHits) = Len(PySplit(sliced, 32))
       /\ \A i \in 1..Len(batchHits) :
             /\ PyInt(PySplit(sliced, 32)[i]).ok
             /\ batchHits[i] = PyInt(PySplit(sliced, 32)[i]).val

\* The last field is "[3 5 7 84]\n", the text that is split "3 5 7 84".
C6_Witness ==
    /\ pc = "assert"
    /\ LastField = <<91, 51, 32, 53, 32, 55, 32, 56, 52, 93, 10>>
    /\ sliced = <<51, 32, 53, 32, 55, 32, 56, 52>>
    /\ batchHits = <<3, 5, 7, 84>>

\* The data line in hand is malformed text: the statement that meets the
\* fault raises, and the run ends with the summaries of the lines before it.
C7_State ==
    (lineNo >= 1 /\ Malformed(lineNo)) =>
        /\ pc \notin {"assert", "print", "for"}
        /\ (FewFields(lineNo) \/ BadHits(lineNo)) => pc # "batch"
        /\ pc \in {"exit_with", "done"} =>
              /\ err = IF FewFields(lineNo) THEN "IndexError"
                                            ELSE "ValueError"
              /\ Len(out) = lineNo - 1
              /\ \A i \in 1..(lineNo - 1) : out[i] = Summary(i)
        /\ Done => exitCode = 1

\* C7: a data line of fewer than three fields (a blank line included) raises
\* IndexError, one whose field 2 or whose batch-hits token is no integer (or
\* one of more than MaxStrDigits digits) raises ValueError; the line is not
\* printed, no later line is fetched, the run ends with status 1 and the
\* lines printed before stay printed.
C7_FormatErrorsAbort == []C7_State /\ [][StepKeepsOutput]_vars

C7_Witness ==
    /\ Done /\ lineNo = 2 /\ FewFields(lineNo)
    /\ err = "IndexError" /\ Len(out) = 1 /\ NumRecords = 2

\* C8: with output.csv missing or unreadable the run ends on the file-access
\* error of open(): no handle, no byte read, nothing printed.
C8_MissingFileNoOutput ==
    fileState # "present" =>
        /\ handle = "unopened"
        /\ reader = NewReader /\ lineNo = 0 /\ line = <<>>
        /\ out = <<>>
        /\ pc \in {"open", "done"}
        /\ Done =>
              /\ exitCode = 1
              /\ err = IF fileState = "missing" THEN "FileNotFoundError"
                                                ELSE "PermissionError"

C8_Witness == Done /\ fileState = "missing" /\ err = "FileNotFoundError"

\* C9: an opened file is eventually closed, however the with block is left,
\* and the script never ends with the file still open.
C9_HandleReleased ==
    /\ [](Done => handle # "open")
    /\ (handle = "open") ~> (handle = "closed")

\* The file is closed after the for loop failed to read its second chunk,
\* one line being printed.
C9_Witness ==
    /\ Done /\ handle = "closed" /\ err = "UnicodeDecodeError"
    /\ input.header = LongHeader /\ lineNo = 1 /\ Len(out) = 1

\* C10: for a last data line that has no line terminator the slice drops the
\* closing bracket and the last character of the last integer, so a record
\* whose written list sums to its hits is parsed to another list and never
\* gets its summary line; "[3 5 7 84]" is parsed as [3, 5, 7, 8].
C10_UnterminatedLastLine ==
    (lineNo >= 1 /\ lineNo = NumRecords /\ ~input.terminated
       /\ WrittenValid(lineNo)) =>
        /\ pc # "print"
        /\ Len(out) < lineNo
        /\ pc \in {"assert", "exit_with", "done"} =>
              sliced = SubSeq(WrittenInner(lineNo), 1,
                              Len(WrittenInner(lineNo)) - 1)
        /\ pc = "assert" =>
              /\ batchHits # Written(lineNo).batch
              /\ input.lines[lineNo] = 1 => batchHits = <<3, 5, 7, 8>>
        /\ Done => err \in {"AssertionError", "ValueError"}

C10_Witness ==
    /\ ~input.terminated /\ lineNo >= 1 /\ lineNo = NumRecords
    /\ input.lines[lineNo] = 1
    /\ Done /\ err = "AssertionError" /\ batchHits = <<3, 5, 7, 8>>

====
